---- MODULE Spec2Model ----
(***************************************************************************)
(* Model of the `build` command of snowman (cmd/build.go): the sequential  *)
(* pipeline config -> site directory -> static copy -> include and view    *)
(* discovery -> per view: query, then one page or one page per row.        *)
(*                                                                         *)
(* Strings that the code computes with (paths, patterns, values) are       *)
(* sequences of one-character strings, so that strings.Replace is modelled *)
(* by what it does.                                                        *)
(***************************************************************************)
EXTENDS Integers, Sequences, FiniteSets, TLC

VARIABLES
    pc,              \* position of RunE
    cfgFile,         \* snowman.yaml on disk: "missing", "unreadable" or its bytes
    data,            \* bytes read from snowman.yaml
    config,          \* siteConfig
    site,            \* the output directory "site": [exists, files]
    siteExisted,     \* whether "site" existed when the build started
    static,          \* the directory "static": "absent", "unreadable" or "present"
    layouts,         \* result of DiscoverIncludes
    discoveredViews, \* result of views.DiscoverViews
    vi,              \* index of the view of the current loop iteration
    results,         \* res.Results.Bindings of the current view
    ri,              \* index of the row of the current inner loop iteration
    log,             \* every step performed so far, in order, with its outcome
    err              \* message handed to utils.ErrorExit, or NoErr

vars == <<pc, cfgFile, data, config, site, siteExisted, static, layouts,
          discoveredViews, vi, results, ri, log, err>>

----------------------------------------------------------------------------
(* Bounds *)

MaxRows == 2

----------------------------------------------------------------------------
(* Strings *)

Str_site == <<"s", "i", "t", "e", "/">>
Str_static == <<"s", "t", "a", "t", "i", "c", "/">>
Str_open == <<"{", "{">>
Str_close == <<"}", "}">>

\* old occurs in s at position i
MatchAt(s, old, i) ==
    /\ i >= 1
    /\ i + Len(old) - 1 <= Len(s)
    /\ \A k \in 1..Len(old) : s[i + k - 1] = old[k]

\* strings.Index, 1-based; 0 when old does not occur in s
Index(s, old) ==
    IF \E i \in 1..Len(s) : MatchAt(s, old, i)
    THEN CHOOSE i \in 1..Len(s) :
            /\ MatchAt(s, old, i)
            /\ \A j \in 1..(i - 1) : ~MatchAt(s, old, j)
    ELSE 0

\* fault variant of Replace: the count n is ignored, every occurrence is replaced
RECURSIVE ReplaceAllOccurrences(_, _, _, _)
ReplaceAllOccurrences(s, old, new, n) ==
    IF Index(s, old) = 0
    THEN s
    ELSE LET i == Index(s, old) IN
         SubSeq(s, 1, i - 1) \o new
            \o ReplaceAllOccurrences(SubSeq(s, i + Len(old), Len(s)), old, new, n)

\* strings.Replace(s, old, new, n) for a non-empty old: the first n
\* non-overlapping occurrences of old are replaced, all of them when n < 0
RECURSIVE Replace(_, _, _, _)
Replace(s, old, new, n) ==
    IF n = 0 \/ Index(s, old) = 0
    THEN s
    ELSE LET i == Index(s, old) IN
         SubSeq(s, 1, i - 1) \o new
            \o Replace(SubSeq(s, i + Len(old), Len(s)), old, new, n - 1)

----------------------------------------------------------------------------
(* Configuration *)

NoErr == "none"

\* contents of snowman.yaml considered: not YAML, YAML without the key,
\* and YAML with sparql_endpoint set to each endpoint below
Endpoints == {"", "not a url", "https://example.org/sparql"}
CfgBytes == {"garbage"} \cup Endpoints
CfgFiles == {"missing", "unreadable"} \cup CfgBytes

\* siteConfig.Parse: yaml.Unmarshal into the struct
ParseOk(bytes) == bytes /= "garbage"
Parse(bytes) == [Endpoint |-> bytes]

\* fault variant of IsValid: only an empty endpoint is rejected
IsValidNonEmpty(c) == c.Endpoint /= ""

\* siteConfig.IsValid: url.ParseRequestURI(c.Endpoint) returns no error
IsValid(c) == c.Endpoint \in {"https://example.org/sparql"}

----------------------------------------------------------------------------
(* Views, rows and pages *)

NoHook == "nil"
Cols == {"s", "t"}

\* a sparql binding; the zero value is what a Go map returns for a missing key
ZeroBinding == [Value |-> <<>>]
Bind(v) == [Value |-> v]

\* row[key] on a Go map
Lookup(row, key) == IF key \in DOMAIN row THEN row[key] ELSE ZeroBinding

Row0 == [c \in {} |-> ZeroBinding]
RowX == [c \in {"s"} |-> Bind(<<"x">>)]
RowAB == [c \in {"s"} |-> Bind(<<"a", "/", "b">>)]
RowXT == [c \in {"s", "t"} |-> IF c = "s" THEN Bind(<<"x">>) ELSE Bind(<<"y">>)]
Rows == {Row0, RowX, RowAB, RowXT}

RowSeqs == UNION {[1..n -> Rows] : n \in 0..MaxRows}

\* a view descriptor
View(q, out, hook) ==
    [Sparql |-> q, ViewConfig |-> [Output |-> out], MultipageVariableHook |-> hook]

\* "{{" + *view.MultipageVariableHook + "}}"
Placeholder(hook) == Str_open \o <<hook>> \o Str_close

\* the view declarations that may be present under views/:
\* index.html from all rows, and p/{{s}} with multipage key s
SingleView == View("q1", <<"i">>, NoHook)
MultiView == View("q2", <<"p", "/">> \o Placeholder("s"), "s")
ViewDecls == {SingleView, MultiView}

\* a render context: one row, or the whole row sequence
RowCtx(row) == [kind |-> "row", rows |-> <<row>>]
RowsCtx(rows) == [kind |-> "rows", rows |-> rows]
NoCtx == [kind |-> "none", rows |-> <<>>]

\* an entry of the step log
Step(op, ok) == [op |-> op, ok |-> ok, view |-> 0, path |-> <<>>, context |-> NoCtx]
ViewStep(op, ok, v) == [op |-> op, ok |-> ok, view |-> v, path |-> <<>>, context |-> NoCtx]
QueryStep(v, rows) ==
    [op |-> "query", ok |-> TRUE, view |-> v, path |-> <<>>, context |-> RowsCtx(rows)]
RenderStep(ok, v, path, ctx) ==
    [op |-> "render", ok |-> ok, view |-> v, path |-> path, context |-> ctx]

\* a file of the site directory
\* (from says what wrote it: "old", "static", "partial" or "view"; view says which view)
File(path, from, v, ctx) == [path |-> path, from |-> from, view |-> v, context |-> ctx]
WriteFile(files, f) == {g \in files : g.path /= f.path} \cup {f}

\* what an output directory left by an earlier build holds
OldSite == {File(Str_site \o <<"i">>, "old", 0, NoCtx)}

\* regular files under static/, in filepath.Walk (lexical) order
StaticFiles == << Str_static \o <<"c">>, Str_static \o <<"d", "/", "e">> >>

\* the view sequences views.DiscoverViews may return: the declarations present
\* under views/, each once, in the walk order their file names give them
ViewDirs ==
    UNION { {f \in [1..n -> ViewDecls] : \A i, j \in 1..n : i /= j => f[i] /= f[j]} :
              n \in 0..Cardinality(ViewDecls) }

----------------------------------------------------------------------------
Init ==
    /\ pc = "getwd"
    /\ cfgFile \in CfgFiles
    /\ data = "none"
    /\ config = [Endpoint |-> ""]
    /\ siteExisted \in BOOLEAN
    /\ site = [exists |-> siteExisted,
               files |-> IF siteExisted THEN OldSite ELSE {}]
    /\ static \in {"absent", "unreadable", "present"}
    /\ layouts = <<>>
    /\ discoveredViews = <<>>
    /\ vi = 0
    /\ results = <<>>
    /\ ri = 0
    /\ log = <<>>
    /\ err = NoErr

----------------------------------------------------------------------------
\* fault variant of ErrorExit: the error is reported but RunE does not return
ErrorReported(msg, step) ==
    /\ pc' = pc
    /\ err' = msg
    /\ log' = Append(log, step)

(* return utils.ErrorExit(msg, err): the build ends in an error *)
ErrorExit(msg, step) ==
    /\ pc' = "error"
    /\ err' = msg
    /\ log' = Append(log, step)

\* os.Getwd
Getwd ==
    /\ pc = "getwd"
    /\ \/ /\ pc' = "stat"
          /\ log' = Append(log, Step("getwd", TRUE))
          /\ err' = err
       \/ ErrorExit("Failed to get the current working directory.", Step("getwd", FALSE))
    /\ UNCHANGED <<cfgFile, data, config, site, siteExisted, static, layouts,
                   discoveredViews, vi, results, ri>>

\* os.Stat(currentDirectory + "/snowman.yaml")
StatConfig ==
    /\ pc = "stat"
    /\ IF cfgFile = "missing"
       THEN ErrorExit("Unable to locate snowman.yaml in the current working directory.",
                      Step("stat", FALSE))
       ELSE /\ pc' = "read"
            /\ log' = Append(log, Step("stat", TRUE))
            /\ err' = err
    /\ UNCHANGED <<cfgFile, data, config, site, siteExisted, static, layouts,
                   discoveredViews, vi, results, ri>>

\* ioutil.ReadFile(currentDirectory + "/snowman.yaml")
ReadConfig ==
    /\ pc = "read"
    /\ IF cfgFile = "unreadable"
       THEN /\ ErrorExit("Failed to read snowman.yaml.", Step("read", FALSE))
            /\ data' = data
       ELSE /\ pc' = "parse"
            /\ data' = cfgFile
            /\ log' = Append(log, Step("read", TRUE))
            /\ err' = err
    /\ UNCHANGED <<cfgFile, config, site, siteExisted, static, layouts,
                   discoveredViews, vi, results, ri>>

\* config.Parse(data)
ParseConfig ==
    /\ pc = "parse"
    /\ IF ~ParseOk(data)
       THEN /\ ErrorExit("Failed to parse snowman.yaml.", Step("parse", FALSE))
            /\ config' = config
       ELSE /\ pc' = "validate"
            /\ config' = Parse(data)
            /\ log' = Append(log, Step("parse", TRUE))
            /\ err' = err
    /\ UNCHANGED <<cfgFile, data, site, siteExisted, static, layouts,
                   discoveredViews, vi, results, ri>>

\* config.IsValid()
ValidateConfig ==
    /\ pc = "validate"
    /\ IF ~IsValid(config)
       THEN ErrorExit("Failed to validate snowman.yaml.", Step("validate", FALSE))
       ELSE /\ pc' = "mkdir"
            /\ log' = Append(log, Step("validate", TRUE))
            /\ err' = err
    /\ UNCHANGED <<cfgFile, data, config, site, siteExisted, static, layouts,
                   discoveredViews, vi, results, ri>>

\* fault variant of MkdirSite: os.MkdirAll, which accepts an existing directory
MkdirAllSite ==
    /\ pc = "mkdir"
    /\ pc' = "static"
    /\ site' = [site EXCEPT !.exists = TRUE]
    /\ log' = Append(log, Step("mkdir", TRUE))
    /\ err' = err
    /\ UNCHANGED <<cfgFile, data, config, siteExisted, static, layouts,
                   discoveredViews, vi, results, ri>>

\* os.Mkdir("site", 0755): fails when "site" exists
MkdirSite ==
    /\ pc = "mkdir"
    /\ IF site.exists
       THEN /\ ErrorExit("Failed to create site directory.", Step("mkdir", FALSE))
            /\ site' = site
       ELSE /\ pc' = "static"
            /\ site' = [exists |-> TRUE, files |-> {}]
            /\ log' = Append(log, Step("mkdir", TRUE))
            /\ err' = err
    /\ UNCHANGED <<cfgFile, data, config, siteExisted, static, layouts,
                   discoveredViews, vi, results, ri>>

\* CopyStatic: every way the walk over static/ can end, given the files of
\* the site directory before it. The first k regular files are copied to
\* strings.Replace(path, "static/", "site/", 1); the walk then either is over
\* or fails at file k+1, before or after os.Create made the new file.
CopiedFile(path, from) == File(Replace(path, Str_static, Str_site, 1), from, 0, NoCtx)

RECURSIVE CopyFirst(_, _)
CopyFirst(files, k) ==
    IF k = 0 THEN files
    ELSE WriteFile(CopyFirst(files, k - 1), CopiedFile(StaticFiles[k], "static"))

CopyStatic(files) ==
    IF static = "unreadable"
    THEN {[ok |-> FALSE, files |-> files]}
    ELSE {[ok |-> TRUE, files |-> CopyFirst(files, Len(StaticFiles))]}
         \cup {[ok |-> FALSE, files |-> CopyFirst(files, k)] :
                 k \in 0..(Len(StaticFiles) - 1)}
         \cup {[ok |-> FALSE,
                files |-> WriteFile(CopyFirst(files, k),
                                    CopiedFile(StaticFiles[k + 1], "partial"))] :
                 k \in 0..(Len(StaticFiles) - 1)}

\* fault variant of StaticStep: a missing static directory is an error
StaticStepRequired ==
    /\ pc = "static"
    /\ IF static = "absent"
       THEN /\ ErrorExit("Failed to copy static files.", Step("copy", FALSE))
            /\ site' = site
       ELSE \E o \in CopyStatic(site.files) :
            /\ site' = [site EXCEPT !.files = o.files]
            /\ IF o.ok
               THEN /\ pc' = "includes"
                    /\ log' = Append(log, Step("copy", TRUE))
                    /\ err' = err
               ELSE ErrorExit("Failed to copy static files.", Step("copy", FALSE))
    /\ UNCHANGED <<cfgFile, data, config, siteExisted, static, layouts,
                   discoveredViews, vi, results, ri>>

\* os.Stat("static"), then CopyStatic unless the directory does not exist
StaticStep ==
    /\ pc = "static"
    /\ IF static = "absent"
       THEN /\ pc' = "includes"
            /\ site' = site
            /\ log' = Append(log, Step("skip", TRUE))
            /\ err' = err
       ELSE \E o \in CopyStatic(site.files) :
            /\ site' = [site EXCEPT !.files = o.files]
            /\ IF o.ok
               THEN /\ pc' = "includes"
                    /\ log' = Append(log, Step("copy", TRUE))
                    /\ err' = err
               ELSE ErrorExit("Failed to copy static files.", Step("copy", FALSE))
    /\ UNCHANGED <<cfgFile, data, config, siteExisted, static, layouts,
                   discoveredViews, vi, results, ri>>

\* the files under templates/includes when the directory can be walked
IncludeFiles == <<"templates/includes/layout.html">>

\* DiscoverIncludes
DiscoverIncludes ==
    /\ pc = "includes"
    /\ \/ /\ pc' = "views"
          /\ layouts' = IncludeFiles
          /\ log' = Append(log, Step("includes", TRUE))
          /\ err' = err
       \/ /\ ErrorExit("Failed to discover layouts.", Step("includes", FALSE))
          /\ layouts' = layouts
    /\ UNCHANGED <<cfgFile, data, config, site, siteExisted, static,
                   discoveredViews, vi, results, ri>>

\* views.DiscoverViews(layouts), then the head of the loop over the views
DiscoverViews ==
    /\ pc = "views"
    /\ \/ \E vs \in ViewDirs :
          /\ discoveredViews' = vs
          /\ pc' = IF Len(vs) = 0 THEN "done" ELSE "connect"
          /\ vi' = IF Len(vs) = 0 THEN 0 ELSE 1
          /\ log' = Append(log, Step("views", TRUE))
          /\ err' = err
       \/ /\ ErrorExit("Failed to discover views.", Step("views", FALSE))
          /\ UNCHANGED <<discoveredViews, vi>>
    /\ UNCHANGED <<cfgFile, data, config, site, siteExisted, static, layouts,
                   results, ri>>

\* fault variant of NextView: the loop is left after its first iteration
NextViewBreak ==
    /\ pc' = "done"
    /\ vi' = vi
    /\ results' = <<>>
    /\ ri' = 0

\* the end of one iteration of `for _, view := range discoveredViews`
NextView ==
    /\ pc' = IF vi < Len(discoveredViews) THEN "connect" ELSE "done"
    /\ vi' = IF vi < Len(discoveredViews) THEN vi + 1 ELSE vi
    /\ results' = <<>>
    /\ ri' = 0

\* sparql.NewRepo(config.Endpoint)
NewRepo ==
    /\ pc = "connect"
    /\ \/ /\ pc' = "query"
          /\ log' = Append(log, ViewStep("connect", TRUE, vi))
          /\ err' = err
       \/ ErrorExit("Failed to connect to SPARQL endpoint.", ViewStep("connect", FALSE, vi))
    /\ UNCHANGED <<cfgFile, data, config, site, siteExisted, static, layouts,
                   discoveredViews, vi, results, ri>>

\* repo.Query(view.Sparql), then the branch on view.MultipageVariableHook
Query ==
    /\ pc = "query"
    /\ \/ \E rows \in RowSeqs :
          /\ log' = Append(log, QueryStep(vi, rows))
          /\ err' = err
          /\ IF discoveredViews[vi].MultipageVariableHook = NoHook
             THEN /\ pc' = "page"
                  /\ results' = rows
                  /\ UNCHANGED <<vi, ri>>
             ELSE IF Len(rows) = 0
             THEN NextView
             ELSE /\ pc' = "row"
                  /\ results' = rows
                  /\ ri' = 1
                  /\ vi' = vi
       \/ /\ ErrorExit("SPARQL query failed.", ViewStep("query", FALSE, vi))
          /\ UNCHANGED <<vi, results, ri>>
    /\ UNCHANGED <<cfgFile, data, config, site, siteExisted, static, layouts,
                   discoveredViews>>

\* view.RenderPage(path, ctx): every way it can end. The page is rendered and
\* written to path, or the rendering fails and nothing is written.
RenderPage(files, v, path, ctx) ==
    { [ok |-> TRUE, files |-> WriteFile(files, File(path, "view", v, ctx))],
      [ok |-> FALSE, files |-> files] }

\* fault variant of RowPath: the placeholder is not substituted
RowPathUnsubstituted(view, row) == Str_site \o view.ViewConfig.Output

\* outputPath of the page of one row of a multipage view
RowPath(view, row) ==
    Str_site \o Replace(view.ViewConfig.Output,
                        Placeholder(view.MultipageVariableHook),
                        Lookup(row, view.MultipageVariableHook).Value, 1)

\* one iteration of `for _, row := range results`
RenderRow ==
    /\ pc = "row"
    /\ LET view == discoveredViews[vi]
           row == results[ri]
           outputPath == RowPath(view, row)
       IN \E o \in RenderPage(site.files, vi, outputPath, RowCtx(row)) :
          /\ site' = [site EXCEPT !.files = o.files]
          /\ IF o.ok
             THEN /\ log' = Append(log, RenderStep(TRUE, vi, outputPath, RowCtx(row)))
                  /\ err' = err
                  /\ IF ri < Len(results)
                     THEN /\ ri' = ri + 1
                          /\ UNCHANGED <<pc, vi, results>>
                     ELSE NextView
             ELSE /\ ErrorExit("Failed to render page at outputPath",
                               RenderStep(FALSE, vi, outputPath, RowCtx(row)))
                  /\ UNCHANGED <<vi, results, ri>>
    /\ UNCHANGED <<cfgFile, data, config, siteExisted, static, layouts,
                   discoveredViews>>

\* fault variant of PagePath: the site directory is not prepended
PagePathBare(view) == view.ViewConfig.Output

\* outputPath of the page of a view without multipage key
PagePath(view) == Str_site \o view.ViewConfig.Output

\* the else branch: one page with all the results
RenderSingle ==
    /\ pc = "page"
    /\ LET view == discoveredViews[vi]
           outputPath == PagePath(view)
       IN \E o \in RenderPage(site.files, vi, outputPath, RowsCtx(results)) :
          /\ site' = [site EXCEPT !.files = o.files]
          /\ IF o.ok
             THEN /\ log' = Append(log, RenderStep(TRUE, vi, outputPath, RowsCtx(results)))
                  /\ err' = err
                  /\ NextView
             ELSE /\ ErrorExit("Failed to render page at outputPath",
                               RenderStep(FALSE, vi, outputPath, RowsCtx(results)))
                  /\ UNCHANGED <<vi, results, ri>>
    /\ UNCHANGED <<cfgFile, data, config, siteExisted, static, layouts,
                   discoveredViews>>

Next ==
    \/ Getwd
    \/ StatConfig
    \/ ReadConfig
    \/ ParseConfig
    \/ ValidateConfig
    \/ MkdirSite
    \/ StaticStep
    \/ DiscoverIncludes
    \/ DiscoverViews
    \/ NewRepo
    \/ Query
    \/ RenderRow
    \/ RenderSingle

Spec == Init /\ [][Next]_vars

----------------------------------------------------------------------------
(* The path computation of the multipage branch on its own: the output     *)
(* pattern, the multipage key and the row are drawn from bounded sets and  *)
(* the build is taken up where RenderRow renders that row.                 *)

MaxPieces == 3

\* output patterns: up to MaxPieces pieces, each a letter, a path separator,
\* a lone brace or the placeholder of column s
Pieces == { <<"p">>, <<"/">>, <<"{">>, Placeholder("s") }

RECURSIVE Concat(_)
Concat(ps) == IF Len(ps) = 0 THEN <<>> ELSE Head(ps) \o Concat(Tail(ps))

Patterns == { Concat(ps) : ps \in UNION {[1..n -> Pieces] : n \in 1..MaxPieces} }

\* a row whose value is itself the placeholder text
RowTok == [c \in {"s"} |-> Bind(Placeholder("s"))]

PlanInit ==
    /\ pc = "row"
    /\ cfgFile = "https://example.org/sparql"
    /\ data = cfgFile
    /\ config = Parse(data)
    /\ siteExisted = FALSE
    /\ site = [exists |-> TRUE, files |-> {}]
    /\ static = "absent"
    /\ layouts = IncludeFiles
    /\ \E out \in Patterns, hook \in Cols :
          discoveredViews = <<View("q", out, hook)>>
    /\ vi = 1
    /\ \E row \in Rows \cup {RowTok} : results = <<row>>
    /\ ri = 1
    /\ log = << Step("getwd", TRUE), Step("stat", TRUE), Step("read", TRUE),
                Step("parse", TRUE), Step("validate", TRUE), Step("mkdir", TRUE),
                Step("skip", TRUE), Step("includes", TRUE), Step("views", TRUE),
                ViewStep("connect", TRUE, 1), QueryStep(1, results) >>
    /\ err = NoErr

PlanSpec == PlanInit /\ [][RenderRow]_vars

----------------------------------------------------------------------------
(* Vocabulary of the properties *)

IsMulti(v) == discoveredViews[v].MultipageVariableHook /= NoHook

\* the positions of the log holding a step of one of the kinds in S
Ops(S) == {i \in 1..Len(log) : log[i].op \in S}

\* the render jobs of view v so far, in order
Jobs(v) ==
    LET IsJob(e) == e.op = "render" /\ e.view = v
    IN SelectSeq(log, IsJob)

\* the row sequences the queries of view v returned so far, in order
Returned(v) ==
    LET IsAnswer(e) == e.op = "query" /\ e.view = v /\ e.ok
        Rowsof(e) == e.context.rows
        qs == SelectSeq(log, IsAnswer)
    IN [i \in 1..Len(qs) |-> qs[i].context.rows]

\* the loop iteration of view v has ended without error
Finished(v) == v \in 1..Len(discoveredViews) /\ (pc = "done" \/ v < vi)

\* the positions at which tok occurs in s
Occurrences(s, tok) == {i \in 1..Len(s) : MatchAt(s, tok, i)}

\* s with the occurrence of tok at position i replaced by val
SubstAt(s, tok, val, i) ==
    SubSeq(s, 1, i - 1) \o val \o SubSeq(s, i + Len(tok), Len(s))

StepsAfterConfig == {"mkdir", "skip", "copy", "includes", "views", "connect", "query", "render"}
StepsAfterMkdir == StepsAfterConfig \ {"mkdir"}
StepsAfterStatic == {"includes", "views", "connect", "query", "render"}

----------------------------------------------------------------------------
(* C1: in a multipage view whose query returned n rows, the jobs are one   *)
(* per row, in order: job i renders row i alone, to the output pattern     *)
(* with the placeholder replaced by row i's value of the multipage key,    *)
(* under site/; a view whose iteration ended without error has exactly n.  *)
InvMultiPage ==
    \A v \in 1..Len(discoveredViews) :
        (IsMulti(v) /\ Len(Returned(v)) > 0) =>
            LET rows == Returned(v)[1]
                jobs == Jobs(v)
                out == discoveredViews[v].ViewConfig.Output
                key == discoveredViews[v].MultipageVariableHook
                tok == Str_open \o <<key>> \o Str_close
            IN /\ Len(jobs) <= Len(rows)
               /\ Finished(v) => Len(jobs) = Len(rows)
               /\ \A i \in 1..Len(jobs) :
                    /\ jobs[i].context = [kind |-> "row", rows |-> <<rows[i]>>]
                    /\ (i < Len(jobs) \/ Finished(v)) => jobs[i].ok
                    /\ (key \in DOMAIN rows[i] /\ Occurrences(out, tok) /= {}) =>
                          \E k \in Occurrences(out, tok) :
                              jobs[i].path = Str_site \o SubstAt(out, tok, rows[i][key].Value, k)

\* a build that ended well with a multipage view of two rows of different values
WitMultiPage ==
    /\ pc = "done"
    /\ \E v \in 1..Len(discoveredViews) :
          /\ IsMulti(v)
          /\ Len(Jobs(v)) = 2
          /\ Jobs(v)[1].path = Str_site \o <<"p", "/", "x">>
          /\ Jobs(v)[2].path = Str_site \o <<"p", "/", "a", "/", "b">>

(* C2: in a view without multipage key whose query returned rows, there is *)
(* one job: it renders the whole row sequence, in the order returned, to   *)
(* the output pattern as it is, under site/; a view whose iteration ended  *)
(* without error has exactly that one job.                                 *)
InvSinglePage ==
    \A v \in 1..Len(discoveredViews) :
        (~IsMulti(v) /\ Len(Returned(v)) > 0) =>
            LET rows == Returned(v)[1]
                jobs == Jobs(v)
            IN /\ Len(jobs) <= 1
               /\ Finished(v) => (Len(jobs) = 1 /\ jobs[1].ok)
               /\ \A i \in 1..Len(jobs) :
                    /\ jobs[i].context = [kind |-> "rows", rows |-> rows]
                    /\ jobs[i].path = Str_site \o discoveredViews[v].ViewConfig.Output

\* a build that ended well with a single-page view of two different rows
WitSinglePage ==
    /\ pc = "done"
    /\ \E v \in 1..Len(discoveredViews) :
          /\ ~IsMulti(v)
          /\ Len(Jobs(v)) = 1
          /\ Len(Jobs(v)[1].context.rows) = 2
          /\ Jobs(v)[1].context.rows[1] /= Jobs(v)[1].context.rows[2]
          /\ \E f \in site.files : f.path = Jobs(v)[1].path /\ f.view = v /\ f.context = Jobs(v)[1].context

(* C3: in a multipage view no page is rendered for a row that has no       *)
(* binding for the multipage key, and the iteration of a view whose query  *)
(* returned such a row does not end without error.                         *)
ClaimMissingColumnFails ==
    /\ \A i \in Ops({"render"}) :
          (IsMulti(log[i].view) /\ log[i].ok) =>
              discoveredViews[log[i].view].MultipageVariableHook
                  \in DOMAIN log[i].context.rows[1]
    /\ \A v \in 1..Len(discoveredViews) :
          (IsMulti(v) /\ Finished(v)) =>
              \A k \in 1..Len(Returned(v)[1]) :
                  discoveredViews[v].MultipageVariableHook \in DOMAIN Returned(v)[1][k]

(* C4: no page written for a row of a view is overwritten by the page of a *)
(* later, different row of the same view: two such rows never have their   *)
(* pages written to the same output path.                                  *)
ClaimNoOverwrite ==
    \A i, j \in Ops({"render"}) :
        (/\ i < j
         /\ log[i].ok /\ log[j].ok
         /\ log[i].view = log[j].view
         /\ log[i].context /= log[j].context)
            => log[i].path /= log[j].path

(* C5: a failed step is the last step of the build: nothing is performed   *)
(* after it, it is not performed again, and the build is in the error      *)
(* state exactly when its last step failed.                                *)
InvAbortOnFirstError ==
    /\ \A i \in 1..Len(log) : ~log[i].ok => i = Len(log)
    /\ (pc = "error") = (Len(log) > 0 /\ ~log[Len(log)].ok)
    /\ (pc = "error") = (err /= NoErr)
    /\ pc = "done" => \A i \in 1..Len(log) : log[i].ok

\* a build that failed at a page of a view after an earlier page was written
WitAbortOnFirstError ==
    /\ pc = "error"
    /\ log[Len(log)].op = "render"
    /\ \E i \in Ops({"render"}) : log[i].ok
    /\ vi < Len(discoveredViews)

BadConfig == cfgFile \in {"missing", "unreadable", "garbage", "", "not a url"}

ConfigSteps == << Step("getwd", TRUE), Step("stat", TRUE), Step("read", TRUE),
                  Step("parse", TRUE), Step("validate", TRUE) >>

(* C6: the site directory is created, and every later step taken, only     *)
(* after snowman.yaml has been located, read, parsed and validated; with a *)
(* missing, unreadable or unparsable file or an endpoint that is no URL    *)
(* the build never gets past validation: the site directory is as it was   *)
(* at the start and nothing was copied, discovered or queried, and a       *)
(* failed config step ends the build in the error state.                   *)
InvConfigFirst ==
    /\ BadConfig =>
          /\ pc \in {"getwd", "stat", "read", "parse", "validate", "error"}
          /\ Ops(StepsAfterConfig) = {}
          /\ site = [exists |-> siteExisted,
                     files |-> IF siteExisted THEN OldSite ELSE {}]
    /\ \A i \in Ops(StepsAfterConfig) :
          /\ i > Len(ConfigSteps)
          /\ SubSeq(log, 1, Len(ConfigSteps)) = ConfigSteps
    /\ \A i \in Ops({"stat", "read", "parse", "validate"}) :
          ~log[i].ok =>
              (pc = "error" /\ site.exists = siteExisted /\ Ops(StepsAfterConfig) = {})
    /\ (site.exists /\ ~siteExisted) => (~BadConfig /\ config.Endpoint = cfgFile)

\* a build stopped at validation of the endpoint, the site directory not made
WitConfigFirst ==
    /\ pc = "error"
    /\ err = "Failed to validate snowman.yaml."
    /\ cfgFile = "not a url"
    /\ ~site.exists

(* C7: when the site directory exists at the start, directory creation     *)
(* fails if it is reached, no step after it is ever taken, and the         *)
(* directory keeps the contents it had.                                    *)
InvFreshSite ==
    siteExisted =>
        /\ site = [exists |-> TRUE, files |-> OldSite]
        /\ Ops(StepsAfterMkdir) = {}
        /\ pc \in {"getwd", "stat", "read", "parse", "validate", "mkdir", "error"}
        /\ \A i \in Ops({"mkdir"}) :
              /\ ~log[i].ok
              /\ pc = "error"
              /\ err = "Failed to create site directory."
        /\ (~BadConfig /\ pc = "error" /\ log[Len(log)].op /= "getwd")
              => log[Len(log)].op = "mkdir"

\* a build with a valid config stopped at the creation of an existing site
WitFreshSite ==
    /\ siteExisted
    /\ pc = "error"
    /\ err = "Failed to create site directory."
    /\ static = "present"

StaticCopies ==
    { [path |-> Str_site \o SubSeq(StaticFiles[k], Len(Str_static) + 1, Len(StaticFiles[k])),
       from |-> "static", view |-> 0, context |-> NoCtx] : k \in 1..Len(StaticFiles) }

(* C8: without a static directory nothing is copied, no copy error arises  *)
(* and the step after the directory creation is the skip, followed by the  *)
(* include discovery; with a static directory the copy is the step after   *)
(* the directory creation, before any discovery or query: a successful     *)
(* copy leaves every static file under site/ and is followed by the        *)
(* include discovery, a failed copy ends the build in the error state.     *)
InvOptionalStatic ==
    /\ \A i \in Ops({"mkdir"}) :
          log[i].ok =>
              IF i = Len(log) THEN pc = "static"
              ELSE log[i + 1].op = (IF static = "absent" THEN "skip" ELSE "copy")
    /\ \A i \in Ops({"skip", "copy"}) :
          /\ i > 1 /\ log[i - 1] = Step("mkdir", TRUE)
          /\ log[i].ok => IF i = Len(log) THEN pc = "includes"
                          ELSE log[i + 1].op = "includes"
          /\ ~log[i].ok => (i = Len(log) /\ pc = "error"
                            /\ err = "Failed to copy static files.")
    /\ \A i \in Ops(StepsAfterStatic) : \E j \in Ops({"skip", "copy"}) : j < i /\ log[j].ok
    /\ static = "absent" =>
          /\ Ops({"copy"}) = {}
          /\ err /= "Failed to copy static files."
          /\ \A f \in site.files : f.from \notin {"static", "partial"}
    /\ static /= "absent" =>
          /\ Ops({"skip"}) = {}
          /\ \A i \in Ops({"copy"}) : log[i].ok => StaticCopies \subseteq site.files

\* a build without static directory that went on to render a page
WitOptionalStatic ==
    /\ static = "absent"
    /\ pc = "done"
    /\ Ops({"render"}) /= {}
    /\ Ops({"skip"}) /= {}

ExpectedJobs(v) ==
    LET rows == Returned(v)[1]
    IN IF IsMulti(v)
       THEN [i \in 1..Len(rows) |-> [view |-> v, context |-> [kind |-> "row", rows |-> <<rows[i]>>]]]
       ELSE << [view |-> v, context |-> [kind |-> "rows", rows |-> rows]] >>

RECURSIVE ExpectedWrites(_)
ExpectedWrites(n) ==
    IF n = 0 THEN <<>> ELSE ExpectedWrites(n - 1) \o ExpectedJobs(n)

Writes ==
    LET IsWrite(e) == e.op = "render" /\ e.ok
        ws == SelectSeq(log, IsWrite)
    IN [i \in 1..Len(ws) |-> [view |-> ws[i].view, context |-> ws[i].context]]

ViewSteps ==
    LET OfView(e) == e.view > 0
    IN SelectSeq(log, OfView)

(* C9: the views are processed one at a time in discovery order, each with *)
(* one connection and one query before its pages; the pages of a multipage *)
(* view are rendered in the order of the rows returned; the query of a     *)
(* view comes after every page of the view before it; and the pages        *)
(* written by a build that ended well are the jobs of each view in row     *)
(* order, view after view in discovery order.                              *)
InvSequential ==
    /\ Len(ViewSteps) > 0 => ViewSteps[1].view = 1
    /\ \A i \in 1..(Len(ViewSteps) - 1) :
          ViewSteps[i + 1].view \in {ViewSteps[i].view, ViewSteps[i].view + 1}
    /\ \A i \in Ops({"connect", "query", "render"}) :
          log[i].view \in 1..Len(discoveredViews)
    /\ \A v \in 1..Len(discoveredViews) :
          /\ Cardinality({i \in Ops({"query"}) : log[i].view = v}) <= 1
          /\ Cardinality({i \in Ops({"connect"}) : log[i].view = v}) <= 1
          /\ Finished(v) => Len(Returned(v)) = 1
          /\ \A r \in Ops({"render"}) :
                log[r].view = v =>
                    \E q \in Ops({"query"}) : q < r /\ log[q].view = v /\ log[q].ok
          /\ \A q \in Ops({"query"}) :
                (log[q].view = v /\ v > 1) =>
                    LET IsEarlier(e) == e.op = "render" /\ e.ok /\ e.view = v - 1
                        before == SelectSeq(SubSeq(log, 1, q - 1), IsEarlier)
                    IN Len(before) = Len(ExpectedJobs(v - 1))
          /\ (IsMulti(v) /\ Len(Returned(v)) > 0) =>
                \A i \in 1..Len(Jobs(v)) :
                    /\ i <= Len(Returned(v)[1])
                    /\ Jobs(v)[i].context.rows = <<Returned(v)[1][i]>>
    /\ pc = "done" => Writes = ExpectedWrites(Len(discoveredViews))

\* a build that ended well with a two-row multipage view before a single-page view
WitSequential ==
    /\ pc = "done"
    /\ Len(discoveredViews) = 2
    /\ IsMulti(1)
    /\ Len(Writes) = 3
    /\ Writes[1].context /= Writes[2].context

Least(S) == CHOOSE k \in S : \A j \in S : k <= j

CountSep(str) == Cardinality({i \in 1..Len(str) : str[i] = "/"})

(* C10: the path of a row's page is site/ followed by the output pattern   *)
(* in which the first occurrence of the placeholder, and only that one, is *)
(* replaced by the row's value as it is: every later occurrence is still   *)
(* in the path, path separators of the value are kept, and a pattern       *)
(* without the placeholder is left as it is.                               *)
InvFirstOccurrence ==
    \A i \in Ops({"render"}) :
        LET out == discoveredViews[log[i].view].ViewConfig.Output
            key == discoveredViews[log[i].view].MultipageVariableHook
            tok == Str_open \o <<key>> \o Str_close
            row == log[i].context.rows[1]
            occ == Occurrences(out, tok)
            path == log[i].path
        IN /\ occ = {} => path = Str_site \o out
           /\ (occ /= {} /\ key \in DOMAIN row) =>
                LET k == Least(occ)
                    val == row[key].Value
                    shift == Len(Str_site) + Len(val) - Len(tok)
                IN /\ path = Str_site \o SubSeq(out, 1, k - 1) \o val
                                 \o SubSeq(out, k + Len(tok), Len(out))
                   /\ \A j \in occ : j >= k + Len(tok) => MatchAt(path, tok, j + shift)
                   /\ CountSep(path) = CountSep(Str_site) + CountSep(out) + CountSep(val)

\* the pattern {{s}}{{s}} and the value a/b gave site/a/b{{s}}
WitFirstOccurrence ==
    \E i \in Ops({"render"}) :
        /\ discoveredViews[log[i].view].ViewConfig.Output = Placeholder("s") \o Placeholder("s")
        /\ log[i].ok
        /\ log[i].path = Str_site \o <<"a", "/", "b">> \o Placeholder("s")

====
